---- MODULE Spec2Model ----
(***************************************************************************)
(* A model of twrs-sms (src/src/lib.rs): the request encoder               *)
(* (TwilioSend::encode), the response decoder (TwilioReply::decode and     *)
(* decode_str) and the delivery poller (is_delivered).                     *)
(*                                                                         *)
(* Text is modelled as Rust holds it: a &str / String is a sequence of     *)
(* bytes (valid UTF-8).  A JSON text is modelled after lexing, as a        *)
(* sequence of tokens; a string token carries its (unescaped) value.       *)
(***************************************************************************)
EXTENDS Integers, Sequences, FiniteSets, TLC

VARIABLES
    msg,          \* encoder: the TwilioSend value (Body, From, To)
    encoded,      \* encoder: the result of encode(), or Pending
    body_in,      \* decoder: the response body handed to decode / decode_str
    decoded,      \* decoder: the outcome of the call, or Pending
    via,          \* decoder: which entry point produced `decoded`
    response,     \* poller: the initial response (returned by send_message)
    script,       \* poller: what the provider answers to the GETs still to come
    pc,           \* poller: position in is_delivered
    resp_status,  \* poller: the local resp_status
    url,          \* poller: the local url
    sub_r,        \* poller: the local sub_r (the GET's response)
    gets,         \* poller: GET requests sent so far
    result,       \* poller: the value is_delivered returned
    panic_msg     \* poller: the message of the panic that ended the call

vars == <<msg, encoded, body_in, decoded, via, response, script, pc,
          resp_status, url, sub_r, gets, result, panic_msg>>

encVars == <<msg, encoded>>
decVars == <<body_in, decoded, via>>
pollVars == <<response, script, pc, resp_status, url, sub_r, gets, result,
              panic_msg>>

Pending == [tag |-> "pending"]
Idle == [tag |-> "idle"]

(***************************************************************************)
(* Bytes and text.                                                         *)
(***************************************************************************)

\* The printable ASCII characters, from 0x20 to 0x7E, in order (0x60, which a
\* TLA+ string cannot hold, by name).
Printable ==
    <<" ", "!", "\"", "#", "$", "%", "&", "'", "(", ")", "*", "+", ",", "-",
      ".", "/", "0", "1", "2", "3", "4", "5", "6", "7", "8", "9", ":", ";",
      "<", "=", ">", "?", "@", "A", "B", "C", "D", "E", "F", "G", "H", "I",
      "J", "K", "L", "M", "N", "O", "P", "Q", "R", "S", "T", "U", "V", "W",
      "X", "Y", "Z", "[", "\\", "]", "^", "_", "grave", "a", "b", "c", "d", "e",
      "f", "g", "h", "i", "j", "k", "l", "m", "n", "o", "p", "q", "r", "s",
      "t", "u", "v", "w", "x", "y", "z", "{", "|", "}", "~">>

\* The byte of an ASCII character, and the bytes of an ASCII text.
Byte(c) == 31 + CHOOSE i \in 1..Len(Printable) : Printable[i] = c
Bytes(cs) == [i \in 1..Len(cs) |-> Byte(cs[i])]

RECURSIVE Concat(_)
Concat(ss) == IF ss = <<>> THEN <<>> ELSE Head(ss) \o Concat(Tail(ss))

Ok(v) == [ok |-> TRUE, v |-> v]
Err(e) == [ok |-> FALSE, err |-> e]

\* TWRSError: the variant and what it carries.
URLEncodeFailure == [kind |-> "URLEncodeFailure", info |-> "serde_urlencoded::ser::Error"]
URLDecodeFailure == [kind |-> "URLDecodeFailure", info |-> "serde_json::Error"]
HTTPRequestError == [kind |-> "HTTPRequestError", info |-> "reqwest::Error"]
NotDelivered(status) == [kind |-> "NotDelivered", info |-> status]

(***************************************************************************)
(* TwilioSend and encode.                                                  *)
(***************************************************************************)

\* TwilioSend::new(): every field the empty string.
TwilioSendNew == [Body |-> <<>>, From |-> <<>>, To |-> <<>>]

\* The fields of TwilioSend in declaration order, which is the order serde's
\* derived Serialize hands them to the serializer.
TwilioSendFields == <<"Body", "From", "To">>
FieldOrderAsInNew == <<"From", "To", "Body">>

FieldName(f) ==
    CASE f = "Body" -> Bytes(<<"B", "o", "d", "y">>)
      [] f = "From" -> Bytes(<<"F", "r", "o", "m">>)
      [] f = "To"   -> Bytes(<<"T", "o">>)

\* form_urlencoded's byte_serialized_unchanged: * - . _ 0-9 A-Z a-z.
ByteSerializedUnchanged(b) ==
    \/ b \in {42, 45, 46, 95}
    \/ b \in 48..57
    \/ b \in 65..90
    \/ b \in 97..122

HexDigits ==
    <<"0", "1", "2", "3", "4", "5", "6", "7", "8", "9", "A", "B", "C", "D",
      "E", "F">>

\* percent_encode_byte: "%XX", upper-case hexadecimal.
PercentEncodeByte(b) ==
    <<37, Byte(HexDigits[(b \div 16) + 1]), Byte(HexDigits[(b % 16) + 1])>>

\* A mutant of SerializeByte that passes '+' through unescaped.
SerializeBytePlusRaw(b) ==
    IF ByteSerializedUnchanged(b) \/ b = 43 THEN <<b>>
    ELSE IF b = 32 THEN <<43>>
    ELSE PercentEncodeByte(b)

\* One step of form_urlencoded::byte_serialize.
SerializeByte(b) ==
    IF ByteSerializedUnchanged(b) THEN <<b>>
    ELSE IF b = 32 THEN <<43>>
    ELSE PercentEncodeByte(b)

RECURSIVE ByteSerialize(_)
ByteSerialize(s) ==
    IF s = <<>> THEN <<>>
    ELSE SerializeByte(Head(s)) \o ByteSerialize(Tail(s))

\* form_urlencoded::Serializer::append_pair: '&' before every pair but the
\* first, then name '=' value, both byte-serialized.
RECURSIVE AppendPairs(_, _, _)
AppendPairs(m, fields, first) ==
    IF fields = <<>> THEN <<>>
    ELSE (IF first THEN <<>> ELSE <<38>>)
         \o ByteSerialize(FieldName(Head(fields))) \o <<61>>
         \o ByteSerialize(m[Head(fields)])
         \o AppendPairs(m, Tail(fields), FALSE)

\* A mutant of encode that serializes the fields in the order new() lists them.
encodeFieldOrderOfNew(m) == Ok(AppendPairs(m, FieldOrderAsInNew, TRUE))

\* TwilioSend::encode: serde_urlencoded::to_string(&self).  Every field is a
\* &str, which the serializer always represents, so the result is Ok.
encode(m) == Ok(AppendPairs(m, TwilioSendFields, TRUE))

(***************************************************************************)
(* The encoder as a state machine: the caller builds a TwilioSend with     *)
(* new(), assigns its fields, and encodes it.                              *)
(***************************************************************************)

\* The longest Body the caller assigns (beside the test's own message).
MaxLen == 2

\* Characters the caller's texts are made of, as UTF-8: a, space, '+', '&',
\* '=', '%', ',', '*' and U+00E9 (two bytes).
EncChars ==
    {<<97>>, <<32>>, <<43>>, <<38>>, <<61>>, <<37>>, <<44>>, <<42>>,
     <<195, 169>>}

RECURSIVE TextsUpTo(_)
TextsUpTo(n) ==
    IF n = 0 THEN {<<>>}
    ELSE LET shorter == TextsUpTo(n - 1)
         IN  shorter \cup {t \o c : t \in shorter, c \in EncChars}

\* The message of tests::test_encoding and the string it expects.
TestBody ==
    Bytes(<<"H", "e", "l", "l", "o", ",", " ", "w", "o", "r", "l", "d", "!">>)
TestFrom ==
    Bytes(<<"+", "1", "1", "2", "3", "4", "5", "6", "7", "8", "9", "0">>)
TestTo ==
    Bytes(<<"+", "1", "0", "9", "8", "7", "6", "5", "4", "3", "2", "1">>)
TestMsg == [Body |-> TestBody, From |-> TestFrom, To |-> TestTo]
TestEncoded ==
    Bytes(<<"B", "o", "d", "y", "=", "H", "e", "l", "l", "o", "%", "2", "C",
            "+", "w", "o", "r", "l", "d", "%", "2", "1",
            "&", "F", "r", "o", "m", "=", "%", "2", "B", "1", "1", "2", "3",
            "4", "5", "6", "7", "8", "9", "0",
            "&", "T", "o", "=", "%", "2", "B", "1", "0", "9", "8", "7", "6",
            "5", "4", "3", "2", "1">>)

Bodies == TextsUpTo(MaxLen) \cup {TestBody}
Addresses ==
    {<<>>, TestFrom, TestTo, Bytes(<<"a", "&", "T", "o", "=", "b">>),
     Bytes(<<"+", "1", " ", "2">>)}

InitEncode ==
    /\ msg = TwilioSendNew
    /\ encoded = Idle
    /\ body_in = Idle /\ decoded = Idle /\ via = Idle
    /\ response = Idle /\ script = Idle /\ pc = "idle" /\ resp_status = Idle
    /\ url = Idle /\ sub_r = Idle /\ gets = 0 /\ result = Idle
    /\ panic_msg = Idle

\* The caller's field assignments (tw.From = ..; tw.To = ..; tw.Body = ..).
AssignFields ==
    /\ encoded = Idle
    /\ \E b \in Bodies, f \in Addresses, t \in Addresses :
           msg' = [Body |-> b, From |-> f, To |-> t]
    /\ encoded' = Pending
    /\ UNCHANGED <<decVars, pollVars>>

\* tw.encode().
Encode ==
    /\ encoded = Pending
    /\ encoded' = encode(msg)
    /\ UNCHANGED <<msg, decVars, pollVars>>

NextEncode == AssignFields \/ Encode

SpecEncode == InitEncode /\ [][NextEncode]_vars

(***************************************************************************)
(* Reading a form-url-encoded string back, to state what encode promises.  *)
(***************************************************************************)

\* The pieces of s between occurrences of the byte sep.
RECURSIVE SplitOn(_, _)
SplitOn(s, sep) ==
    IF \A i \in 1..Len(s) : s[i] # sep THEN <<s>>
    ELSE LET k == CHOOSE i \in 1..Len(s) :
                      s[i] = sep /\ \A j \in 1..(i - 1) : s[j] # sep
         IN  <<SubSeq(s, 1, k - 1)>> \o SplitOn(SubSeq(s, k + 1, Len(s)), sep)

HexValue(b) ==
    (CHOOSE i \in 1..16 : Byte(HexDigits[i]) = b) - 1

IsHex(b) == \E i \in 1..16 : Byte(HexDigits[i]) = b

\* application/x-www-form-urlencoded decoding: '+' is a space, %XX a byte.
RECURSIVE FormDecode(_)
FormDecode(s) ==
    IF s = <<>> THEN <<>>
    ELSE IF s[1] = 43 THEN <<32>> \o FormDecode(Tail(s))
    ELSE IF s[1] = 37 /\ Len(s) >= 3 /\ IsHex(s[2]) /\ IsHex(s[3])
         THEN <<16 * HexValue(s[2]) + HexValue(s[3])>>
              \o FormDecode(SubSeq(s, 4, Len(s)))
    ELSE <<s[1]>> \o FormDecode(Tail(s))

IsEncoded == encoded \notin {Idle, Pending}

\* C6: encode always succeeds, and its string is exactly the three pairs
\* Body, From, To, in that order and casing, none omitted (empty fields
\* included); the only bytes in it are unreserved ones, '+', '%', '=' and
\* '&'; each value reads back as the field it came from; and the message of
\* test_encoding gives exactly the string the test expects.
C6_EncodeWireFormat ==
    IsEncoded =>
        /\ encoded.ok
        /\ LET pairs == SplitOn(encoded.v, 38)
               names == <<Bytes(<<"B", "o", "d", "y">>),
                          Bytes(<<"F", "r", "o", "m">>),
                          Bytes(<<"T", "o">>)>>
               values == <<msg.Body, msg.From, msg.To>>
           IN  /\ Len(pairs) = 3
               /\ \A i \in 1..3 :
                      LET kv == SplitOn(pairs[i], 61)
                      IN  /\ Len(kv) = 2
                          /\ kv[1] = names[i]
                          /\ FormDecode(kv[2]) = values[i]
                          /\ \A j \in 1..Len(kv[2]) :
                                 \/ ByteSerializedUnchanged(kv[2][j])
                                 \/ kv[2][j] \in {43, 37}
        /\ (msg = TestMsg => encoded.v = TestEncoded)

\* C6's case: the message of test_encoding has been encoded, to the test's
\* string.
C6_Witness == msg = TestMsg /\ IsEncoded /\ encoded = Ok(TestEncoded)

(***************************************************************************)
(* JSON texts, after lexing.                                               *)
(***************************************************************************)

LBrace == [t |-> "{", v |-> ""]
RBrace == [t |-> "}", v |-> ""]
LBracket == [t |-> "[", v |-> ""]
RBracket == [t |-> "]", v |-> ""]
Colon == [t |-> ":", v |-> ""]
Comma == [t |-> ",", v |-> ""]
Null == [t |-> "null", v |-> ""]
Str(s) == [t |-> "str", v |-> s]
Num(n) == [t |-> "num", v |-> n]
Bool(b) == [t |-> "bool", v |-> b]
\* Characters that begin no JSON token (HTML, a bare word, ...).
Junk == [t |-> "junk", v |-> ""]

\* The kind of the token at i ("eof" past the end of the text).
Peek(toks, i) == IF i \in 1..Len(toks) THEN toks[i].t ELSE "eof"

Parsed(v, next) == [ok |-> TRUE, v |-> v, next |-> next]
Failed == [ok |-> FALSE, v |-> <<>>, next |-> 0]

(***************************************************************************)
(* TwilioReply and serde_json::from_str::<TwilioReply>.                    *)
(***************************************************************************)

\* Option<String>: None is <<>>, Some(s) is <<s>>.
None == <<>>
Some(s) == <<s>>

\* The fields of TwilioReply, in declaration order, with their types.
ReplyFields ==
    <<[name |-> "sid", type |-> "String"],
      [name |-> "date_created", type |-> "String"],
      [name |-> "date_updated", type |-> "String"],
      [name |-> "date_sent", type |-> "Option"],
      [name |-> "account_sid", type |-> "String"],
      [name |-> "to", type |-> "String"],
      [name |-> "from", type |-> "String"],
      [name |-> "messaging_service_sid", type |-> "Option"],
      [name |-> "body", type |-> "String"],
      [name |-> "status", type |-> "String"],
      [name |-> "num_segments", type |-> "String"],
      [name |-> "num_media", type |-> "String"],
      [name |-> "direction", type |-> "String"],
      [name |-> "api_version", type |-> "String"],
      [name |-> "price", type |-> "Option"],
      [name |-> "price_unit", type |-> "String"],
      [name |-> "error_code", type |-> "Option"],
      [name |-> "error_message", type |-> "Option"],
      [name |-> "uri", type |-> "String"],
      [name |-> "subresource_uris", type |-> "HashMap"]>>

FieldNames == {ReplyFields[k].name : k \in 1..Len(ReplyFields)}

\* A mutant of TypeOf in which price is a String, not an Option<String>.
TypeOfPriceRequired(name) == IF name = "subresource_uris" THEN "HashMap" ELSE "String"
TypeOf(name) ==
    ReplyFields[CHOOSE k \in 1..Len(ReplyFields) : ReplyFields[k].name = name].type

\* serde_json's ignore_value (IgnoredAny): any one well-formed JSON value.
\* The index after the value, or 0 when the text is malformed there.
\* IgnoreMembers is at the place after '{' or after a member, IgnoreElements
\* after '[' or after an element; the ..After operators go on from where a
\* member's or an element's value ended (n).
RECURSIVE IgnoreValue(_, _)
RECURSIVE IgnoreMembers(_, _, _)
RECURSIVE IgnoreMember(_, _)
RECURSIVE IgnoreMembersAfter(_, _)
RECURSIVE IgnoreElements(_, _, _)
RECURSIVE IgnoreElement(_, _)
RECURSIVE IgnoreElementsAfter(_, _)
IgnoreValue(toks, i) ==
    LET t == Peek(toks, i)
    IN  IF t \in {"str", "num", "null", "bool"} THEN i + 1
        ELSE IF t = "{" THEN IgnoreMembers(toks, i + 1, TRUE)
        ELSE IF t = "[" THEN IgnoreElements(toks, i + 1, TRUE)
        ELSE 0

IgnoreMembers(toks, i, first) ==
    LET t == Peek(toks, i)
    IN  IF t = "}" THEN i + 1
        ELSE IgnoreMember(toks, IF first THEN i
                                ELSE IF t = "," THEN i + 1 ELSE 0)

IgnoreMember(toks, k) ==
    IF k = 0 \/ Peek(toks, k) # "str" \/ Peek(toks, k + 1) # ":" THEN 0
    ELSE IgnoreMembersAfter(toks, IgnoreValue(toks, k + 2))

IgnoreMembersAfter(toks, n) ==
    IF n = 0 THEN 0 ELSE IgnoreMembers(toks, n, FALSE)

IgnoreElements(toks, i, first) ==
    LET t == Peek(toks, i)
    IN  IF t = "]" THEN i + 1
        ELSE IgnoreElement(toks, IF first THEN i
                                 ELSE IF t = "," THEN i + 1 ELSE 0)

IgnoreElement(toks, k) ==
    IF k = 0 THEN 0 ELSE IgnoreElementsAfter(toks, IgnoreValue(toks, k))

IgnoreElementsAfter(toks, n) ==
    IF n = 0 THEN 0 ELSE IgnoreElements(toks, n, FALSE)

\* Deserializer::deserialize_string: a JSON string, nothing else.
ParseString(toks, i) ==
    IF Peek(toks, i) = "str" THEN Parsed(toks[i].v, i + 1) ELSE Failed

\* Option's visit_some: Some of what the inner type parsed.
SomeOf(r) == IF r.ok THEN Parsed(Some(r.v), r.next) ELSE Failed

\* Deserializer::deserialize_option: null is None, anything else is the inner
\* type's business.
ParseOption(toks, i) ==
    IF Peek(toks, i) = "null" THEN Parsed(None, i + 1)
    ELSE SomeOf(ParseString(toks, i))

\* MapAccess::next_key_seed: "end" at '}', a key, or an error.  A ',' is
\* required before every key but the first and may not be followed by '}'.
NextKey(toks, i, first) ==
    LET t == Peek(toks, i)
        k == IF first THEN i ELSE IF t = "," THEN i + 1 ELSE 0
    IN  IF t = "}" THEN [kind |-> "end", key |-> "", next |-> i]
        ELSE IF k # 0 /\ Peek(toks, k) = "str"
        THEN [kind |-> "key", key |-> toks[k].v, next |-> k + 1]
        ELSE [kind |-> "err", key |-> "", next |-> 0]

\* Deserializer::end_map, after a visitor that returned r.
EndMap(toks, r) ==
    IF r.ok /\ Peek(toks, r.next) = "}" THEN Parsed(r.v, r.next + 1)
    ELSE Failed

\* HashMap::insert on a map held as a set of <<key, value>> pairs.
Insert(m, k, v) == {p \in m : p[1] # k} \cup {<<k, v>>}

\* HashMap<String, String>'s visit_map: every entry a string key and a string
\* value; a repeated key keeps the last value.  MapEntry is the loop's body
\* for the key k, MapValue what follows the value r of key.
RECURSIVE MapEntries(_, _, _, _)
RECURSIVE MapEntry(_, _, _, _)
RECURSIVE MapValue(_, _, _, _)
MapEntries(toks, i, first, acc) ==
    MapEntry(toks, i, acc, NextKey(toks, i, first))

MapEntry(toks, i, acc, k) ==
    IF k.kind = "end" THEN Parsed(acc, i)
    ELSE IF k.kind = "err" \/ Peek(toks, k.next) # ":" THEN Failed
    ELSE MapValue(toks, acc, k.key, ParseString(toks, k.next + 1))

MapValue(toks, acc, key, r) ==
    IF ~r.ok THEN Failed
    ELSE MapEntries(toks, r.next, FALSE, Insert(acc, key, r.v))

\* Deserializer::deserialize_map for HashMap<String, String>.
ParseHashMap(toks, i) ==
    IF Peek(toks, i) # "{" THEN Failed
    ELSE EndMap(toks, MapEntries(toks, i + 1, TRUE, {}))

ParseField(type, toks, i) ==
    CASE type = "String" -> ParseString(toks, i)
      [] type = "Option" -> ParseOption(toks, i)
      [] type = "HashMap" -> ParseHashMap(toks, i)

\* The derived visitor's slots: <<>> while a field is unset, <<value>> after.
NoFields == [f \in FieldNames |-> <<>>]

\* The derived visit_map: while let Some(key) = map.next_key()? { .. }.  A
\* known key fills its slot (an error if it is filled already), any other
\* key's value is ignored.  StructEntry is the loop's body for the key k,
\* StructValue what follows the value r of field f, StructIgnored what
\* follows an ignored value that ended before n.
RECURSIVE StructEntries(_, _, _, _)
RECURSIVE StructEntry(_, _, _, _)
RECURSIVE StructValue(_, _, _, _)
RECURSIVE StructIgnored(_, _, _)
StructEntries(toks, i, first, acc) ==
    StructEntry(toks, i, acc, NextKey(toks, i, first))

StructEntry(toks, i, acc, k) ==
    IF k.kind = "end" THEN Parsed(acc, i)
    ELSE IF k.kind = "err" \/ Peek(toks, k.next) # ":" THEN Failed
    ELSE IF k.key \in FieldNames
    THEN IF Len(acc[k.key]) > 0 THEN Failed
         ELSE StructValue(toks, acc, k.key,
                          ParseField(TypeOf(k.key), toks, k.next + 1))
    ELSE StructIgnored(toks, acc, IgnoreValue(toks, k.next + 1))

StructValue(toks, acc, f, r) ==
    IF ~r.ok THEN Failed
    ELSE StructEntries(toks, r.next, FALSE, [acc EXCEPT ![f] = <<r.v>>])

StructIgnored(toks, acc, n) ==
    IF n = 0 THEN Failed ELSE StructEntries(toks, n, FALSE, acc)

\* The end of the derived visitor, after the slots r were filled: an unset
\* Option field is None, any other unset field is the error "missing field".
FinishStruct(r) ==
    IF ~r.ok THEN Failed
    ELSE IF \E f \in FieldNames : Len(r.v[f]) = 0 /\ TypeOf(f) # "Option"
    THEN Failed
    ELSE Parsed([f \in FieldNames |->
                    IF Len(r.v[f]) = 0 THEN None ELSE r.v[f][1]], r.next)

\* The derived visit_seq: the fields in declaration order, every one present.
\* SeqElement is next_element for field k at j (0: no element there),
\* SeqValue what follows its value r.
RECURSIVE SeqElements(_, _, _, _)
RECURSIVE SeqElement(_, _, _, _)
RECURSIVE SeqValue(_, _, _, _)
SeqElements(toks, i, k, acc) ==
    IF k > Len(ReplyFields) THEN Parsed(acc, i)
    ELSE SeqElement(toks, k, acc,
                    IF Peek(toks, i) = "]" THEN 0
                    ELSE IF k = 1 THEN i
                    ELSE IF Peek(toks, i) = "," THEN i + 1 ELSE 0)

SeqElement(toks, k, acc, j) ==
    IF j = 0 \/ Peek(toks, j) = "]" THEN Failed
    ELSE SeqValue(toks, k, acc, ParseField(ReplyFields[k].type, toks, j))

SeqValue(toks, k, acc, r) ==
    IF ~r.ok THEN Failed
    ELSE SeqElements(toks, r.next, k + 1,
                     [acc EXCEPT ![ReplyFields[k].name] = <<r.v>>])

\* Deserializer::end_seq, after a visitor that returned r.
EndSeq(toks, r) ==
    IF r.ok /\ Peek(toks, r.next) = "]" THEN Parsed(r.v, r.next + 1)
    ELSE Failed

\* Deserializer::deserialize_struct: an object goes to visit_map, an array to
\* visit_seq, anything else is an invalid type.  The visitor's error comes
\* before end_map's or end_seq's; either way the outcome is an error.
DeserializeStruct(toks) ==
    IF Peek(toks, 1) = "{"
    THEN EndMap(toks, FinishStruct(StructEntries(toks, 2, TRUE, NoFields)))
    ELSE IF Peek(toks, 1) = "["
    THEN EndSeq(toks, FinishStruct(SeqElements(toks, 2, 1, NoFields)))
    ELSE Failed

\* Deserializer::end: nothing but whitespace may follow the value.
End(toks, r) ==
    IF r.ok /\ r.next = Len(toks) + 1 THEN Ok(r.v)
    ELSE Err("serde_json::Error")

\* serde_json::from_str.
from_str(toks) == End(toks, DeserializeStruct(toks))

(***************************************************************************)
(* TwilioReply::decode and TwilioReply::decode_str.                        *)
(***************************************************************************)

\* A transport response, as decode sees it: whether its body can be read,
\* whether the bytes are valid UTF-8, and the JSON tokens of the text.
Response(text) == [io |-> TRUE, utf8 |-> TRUE, text |-> text]
NotUtf8 == [io |-> TRUE, utf8 |-> FALSE, text |-> <<>>]
Unreadable == [io |-> FALSE, utf8 |-> TRUE, text |-> <<>>]

Returned(r) == [tag |-> "returned", value |-> r]
Panicked(m) == [tag |-> "panicked", msg |-> m]

\* Result::map_err.
MapErr(r, e) == IF r.ok THEN r ELSE Err(e)

\* TwilioReply::decode: copy_to(..).expect(..), String::from_utf8(..).expect(..),
\* then json::from_str(..).map_err(TWRSError::URLDecodeFailure).
decode(resp) ==
    IF ~resp.io THEN Panicked("Error copying bytes to String buffer")
    ELSE IF ~resp.utf8 THEN Panicked("Error decoding as UTF-8 from Response")
    ELSE Returned(MapErr(from_str(resp.text), URLDecodeFailure))

\* TwilioReply::decode_str: json::from_str(&response), the error as it is.
decode_str(text) == Returned(from_str(text))

(***************************************************************************)
(* Message resources as the provider sends them.                           *)
(***************************************************************************)

\* The statuses a provider reports: the documented ones and one it may add.
Statuses ==
    {"queued", "sending", "sent", "delivered", "undelivered", "failed",
     "accepted"}

\* The members of the document of tests::test_decoding, with the given status.
Members(status) ==
    <<<<"sid", <<Str("XXXX")>>>>,
      <<"date_created", <<Str("Wed, 22 Jan 2020 15:23:30 +0000")>>>>,
      <<"date_updated", <<Str("Wed, 22 Jan 2020 15:23:30 +0000")>>>>,
      <<"date_sent", <<Null>>>>,
      <<"account_sid", <<Str("ACXXXX")>>>>,
      <<"to", <<Str("+11234567890")>>>>,
      <<"from", <<Str("+10987654321")>>>>,
      <<"messaging_service_sid", <<Null>>>>,
      <<"body", <<Str("Sent from your Twilio trial account - Hiya")>>>>,
      <<"status", <<Str(status)>>>>,
      <<"num_segments", <<Str("1")>>>>,
      <<"num_media", <<Str("0")>>>>,
      <<"direction", <<Str("outbound-api")>>>>,
      <<"api_version", <<Str("2010-04-01")>>>>,
      <<"price", <<Null>>>>,
      <<"price_unit", <<Str("USD")>>>>,
      <<"error_code", <<Null>>>>,
      <<"error_message", <<Null>>>>,
      <<"uri", <<Str("/2010-04-01/Accounts/ACXXXX/Messages/XXXX.json")>>>>,
      <<"subresource_uris",
        <<LBrace, Str("media"), Colon,
          Str("/2010-04-01/Accounts/ACXXXX/Messages/XXXX/Media.json"),
          RBrace>>>>>>

\* Members the struct does not know, as a provider may add them: a nested
\* object, then an array.
UnknownMember(n) ==
    IF n % 2 = 1
    THEN <<"tags", <<LBrace, Str("campaign"), Colon, LBracket, Num("1"),
                     Comma, Bool("true"), RBracket, RBrace>>>>
    ELSE <<"links", <<LBracket, Str("a"), Comma, Null, RBracket>>>>

RECURSIVE WithUnknown(_, _)
WithUnknown(ms, n) ==
    IF n = 0 THEN ms ELSE <<UnknownMember(n)>> \o WithUnknown(ms, n - 1)

Reverse(q) == [i \in 1..Len(q) |-> q[Len(q) + 1 - i]]

\* The text of an object with the given members.
RECURSIVE RenderMembers(_)
RenderMembers(ms) ==
    IF ms = <<>> THEN <<>>
    ELSE <<Str(Head(ms)[1]), Colon>> \o Head(ms)[2]
         \o (IF Len(ms) > 1 THEN <<Comma>> ELSE <<>>)
         \o RenderMembers(Tail(ms))

Render(ms) == <<LBrace>> \o RenderMembers(ms) \o <<RBrace>>

\* The text of an array of the members' values.
RECURSIVE RenderValues(_)
RenderValues(ms) ==
    IF ms = <<>> THEN <<>>
    ELSE Head(ms)[2] \o (IF Len(ms) > 1 THEN <<Comma>> ELSE <<>>)
         \o RenderValues(Tail(ms))

RenderArray(ms) == <<LBracket>> \o RenderValues(ms) \o <<RBracket>>

(***************************************************************************)
(* The decoder as a state machine: a response body arrives and is decoded  *)
(* through one of the two entry points.                                    *)
(***************************************************************************)

\* The most members unknown to TwilioReply that a body carries.
MaxUnknown == 1

Member(ms, f) == ms[CHOOSE k \in 1..Len(ms) : ms[k][1] = f]

SetValue(ms, f, v) ==
    [k \in 1..Len(ms) |-> IF ms[k][1] = f THEN <<f, v>> ELSE ms[k]]

Remove(ms, f) == SelectSeq(ms, LAMBDA m : m[1] # f)

Drop(q, i) == SubSeq(q, 1, i - 1) \o SubSeq(q, i + 1, Len(q))

\* Documents with every field of TwilioReply present and the five optional
\* ones null: the test's document, under either status, with or without
\* unknown members, in either member order.
NullOptionDocuments ==
    {IF rev THEN Reverse(WithUnknown(Members(st), n))
            ELSE WithUnknown(Members(st), n) :
        st \in {"queued", "delivered"}, n \in 0..MaxUnknown, rev \in BOOLEAN}

\* Values a provider may put where the test's document has another.
OtherValues ==
    {<<Null>>, <<Num("30008")>>, <<Str("x")>>, <<LBrace, RBrace>>,
     <<LBrace, Str("media"), Colon, Str("a"), Comma, Str("media"), Colon,
       Str("b"), RBrace>>,
     <<LBrace, Str("media"), Colon, Null, RBrace>>}

\* The texts of the bodies: the documents above, and the test's document
\* damaged in one place (a token lost, the text cut short, a value of another
\* type, a member lost or repeated, text after the end, an array).
DecodeTexts ==
    LET docs == {WithUnknown(Members("queued"), n) : n \in 0..MaxUnknown}
        plain == Members("queued")
    IN  {Render(ms) : ms \in NullOptionDocuments}
        \cup UNION {{Drop(Render(ms), i) : i \in 1..Len(Render(ms))} :
                       ms \in docs}
        \cup UNION {{SubSeq(Render(ms), 1, i) : i \in 0..(Len(Render(ms)) - 1)} :
                       ms \in docs}
        \cup {Render(SetValue(ms, f, v)) :
                ms \in docs, f \in FieldNames, v \in OtherValues}
        \cup {Render(Remove(ms, f)) : ms \in docs, f \in FieldNames}
        \cup {Render(ms \o <<Member(ms, f)>>) : ms \in docs, f \in FieldNames}
        \cup {Render(ms) \o <<t>> : ms \in docs, t \in {Junk, RBrace, Null}}
        \cup {RenderArray(plain), RenderArray(plain) \o <<Comma>>,
              RenderArray(Remove(plain, "subresource_uris")),
              RenderArray(plain \o <<Member(plain, "sid")>>),
              RenderArray(SetValue(plain, "sid", <<Null>>)),
              Drop(RenderArray(plain), 3),
              <<Junk>>, <<Null>>, <<Str("queued")>>, <<LBrace, RBrace>>,
              <<LBracket, RBracket>>}

DecodeInputs == {Response(t) : t \in DecodeTexts} \cup {NotUtf8, Unreadable}

InitDecode ==
    /\ body_in \in DecodeInputs
    /\ decoded = Pending
    /\ via = "none"
    /\ msg = Idle /\ encoded = Idle
    /\ response = Idle /\ script = Idle /\ pc = "idle" /\ resp_status = Idle
    /\ url = Idle /\ sub_r = Idle /\ gets = 0 /\ result = Idle
    /\ panic_msg = Idle

\* TwilioReply::decode(&mut response).
Decode ==
    /\ decoded = Pending
    /\ decoded' = decode(body_in)
    /\ via' = "decode"
    /\ UNCHANGED <<body_in, encVars, pollVars>>

\* TwilioReply::decode_str(&text), by a caller that drained the response into
\* a string itself.
DecodeStr ==
    /\ decoded = Pending
    /\ body_in.io /\ body_in.utf8
    /\ decoded' = decode_str(body_in.text)
    /\ via' = "decode_str"
    /\ UNCHANGED <<body_in, encVars, pollVars>>

NextDecode == Decode \/ DecodeStr

SpecDecode == InitDecode /\ [][NextDecode]_vars

(***************************************************************************)
(* is_delivered.                                                           *)
(***************************************************************************)

\* The most GET replies the provider has ready.
MaxPolls == 2

\* What a GET comes back with: a response, or reqwest's error from send().
Reply(resp) == [tag |-> "response", resp |-> resp]
TransportFailure == [tag |-> "error", resp |-> Unreadable]

NonJsonBody == Response(<<Junk>>)
MissingFieldBody == Response(Render(Remove(Members("queued"), "status")))
MessageBody(status) == Response(Render(Members(status)))

\* The bodies a provider answers with.
PollBodies ==
    {MessageBody(st) : st \in Statuses}
        \cup {NonJsonBody, MissingFieldBody, NotUtf8}

GetOutcomes == {Reply(b) : b \in PollBodies} \cup {TransportFailure}

\* decode is a function of the body alone: its outcome on each body the
\* provider answers with, worked out once.
Decoded == [b \in PollBodies |-> decode(b)]

RECURSIVE SeqsUpTo(_, _)
SeqsUpTo(S, n) ==
    IF n = 0 THEN {<<>>}
    ELSE LET shorter == SeqsUpTo(S, n - 1)
         IN  shorter \cup {Append(q, x) : q \in shorter, x \in S}

\* A mutant of LoopCondition that also loops on "sending".
LoopConditionWithSending(status) == status \in {"queued", "sent", "sending"}

\* A mutant of LoopCondition that loops on "queued" alone.
LoopConditionQueuedOnly(status) == status = "queued"

\* A mutant of LoopCondition that gives up after the first GET.
LoopConditionOneAttempt(status) == status \in {"queued", "sent"} /\ gets < 1

\* A mutant of LoopCondition that loops until "delivered".
LoopConditionUntilDelivered(status) == status # "delivered"

\* The condition of the while loop.
LoopCondition(status) == status = "queued" \/ status = "sent"

\* A mutant of Classify that reports the status of the initial response.
ClassifyInitialStatus(status) ==
    IF status = "delivered" THEN Ok("delivered")
    ELSE Err(NotDelivered(Decoded[response].value.v.status))

\* The final match on resp_status.
Classify(status) ==
    IF status = "delivered" THEN Ok("delivered")
    ELSE Err(NotDelivered(status))

InitPoll ==
    /\ response \in PollBodies
    /\ script \in SeqsUpTo(GetOutcomes, MaxPolls)
    /\ pc = "start"
    /\ resp_status = "" /\ url = <<>> /\ sub_r = Idle
    /\ gets = 0
    /\ result = Pending /\ panic_msg = ""
    /\ msg = Idle /\ encoded = Idle
    /\ body_in = Idle /\ decoded = Idle /\ via = Idle

Panic(m) ==
    /\ pc' = "panicked"
    /\ panic_msg' = m

\* let resp_body = TwilioReply::decode(response).expect(..); resp_status and
\* url are taken from it.
DecodeInitial ==
    /\ pc = "start"
    /\ LET d == Decoded[response]
       IN  IF d.tag = "panicked"
           THEN Panic(d.msg) /\ UNCHANGED <<resp_status, url>>
           ELSE IF ~d.value.ok
           THEN Panic("Error decoding response") /\ UNCHANGED <<resp_status, url>>
           ELSE /\ resp_status' = d.value.v.status
                /\ url' = <<"https://api.twilio.com/", d.value.v.uri>>
                /\ pc' = "while"
                /\ UNCHANGED panic_msg
    /\ UNCHANGED <<response, script, sub_r, gets, result, encVars, decVars>>

\* while resp_status == "queued" || resp_status == "sent"
LoopTest ==
    /\ pc = "while"
    /\ pc' = IF LoopCondition(resp_status) THEN "get" ELSE "match"
    /\ UNCHANGED <<response, script, resp_status, url, sub_r, gets, result,
                   panic_msg, encVars, decVars>>

\* Client::new().get(&url).basic_auth(..).send().expect(..): the provider's
\* next answer, or a panic on a transport error.
SendGet ==
    /\ pc = "get"
    /\ gets < Len(script)
    /\ gets' = gets + 1
    /\ LET o == script[gets + 1]
       IN  IF o.tag = "error"
           THEN Panic("Error sending response inspector get request")
                /\ UNCHANGED sub_r
           ELSE /\ sub_r' = o.resp
                /\ pc' = "decode"
                /\ UNCHANGED panic_msg
    /\ UNCHANGED <<response, script, resp_status, url, result, encVars,
                   decVars>>

\* let sub_res = TwilioReply::decode(&mut sub_r).expect(..);
\* resp_status = sub_res.status;
DecodeSub ==
    /\ pc = "decode"
    /\ LET d == Decoded[sub_r]
       IN  IF d.tag = "panicked"
           THEN Panic(d.msg) /\ UNCHANGED resp_status
           ELSE IF ~d.value.ok
           THEN Panic("Error decoding response from server")
                /\ UNCHANGED resp_status
           ELSE /\ resp_status' = d.value.v.status
                /\ pc' = "while"
                /\ UNCHANGED panic_msg
    /\ UNCHANGED <<response, script, url, sub_r, gets, result, encVars,
                   decVars>>

\* match resp_status.as_ref() { "delivered" => Ok(..), _ => Err(..) }
Match ==
    /\ pc = "match"
    /\ result' = Classify(resp_status)
    /\ pc' = "returned"
    /\ UNCHANGED <<response, script, resp_status, url, sub_r, gets,
                   panic_msg, encVars, decVars>>

Next == DecodeInitial \/ LoopTest \/ SendGet \/ DecodeSub \/ Match

Init == InitPoll

Spec == Init /\ [][Next]_vars

\* The call runs on a thread that keeps running: a step that can be taken is
\* taken.
FairSpec == Spec /\ WF_vars(Next)

(***************************************************************************)
(* What the provider reported, read off its answers (not off the poller).  *)
(***************************************************************************)

NonTerminal == {"queued", "sent"}

\* In-progress statuses other than the two the loop knows.
UnexpectedInProgress == {"sending", "accepted"}

\* The status a body carries; "none" for a body that is no message resource.
MessageBodies == [st \in Statuses |-> MessageBody(st)]

StatusIn(resp) ==
    IF \E st \in Statuses : resp = MessageBodies[st]
    THEN CHOOSE st \in Statuses : resp = MessageBodies[st]
    ELSE "none"

\* The status of the k-th answer: 0 is the initial response, k >= 1 the
\* answer to the k-th GET ("none" for a transport error).
Reported(k) ==
    IF k = 0 THEN StatusIn(response)
    ELSE IF script[k].tag = "error" THEN "none"
    ELSE StatusIn(script[k].resp)

\* Every answer before the n-th reported queued or sent.
PendingBefore(n) == \A k \in 0..(n - 1) : Reported(k) \in NonTerminal

\* The answers the provider has ready: 0..Len(script).
Answers == 0..Len(script)

\* The number of GETs after which the poller has seen the first answer that
\* is not queued or sent (or has used up what the provider has ready).
ExpectedGets ==
    CHOOSE k \in Answers :
        PendingBefore(k) /\ (k = Len(script) \/ Reported(k) \notin NonTerminal)

\* C1: when the answers before the n-th are all queued or sent and the n-th
\* is delivered, the call never sends more than n GETs, never panics, is not
\* left waiting to send a GET once n are sent, and when it has returned it
\* has sent exactly n GETs and returned Ok("delivered").
C1_DeliveredAfterExactlyNGets ==
    \A n \in Answers :
        (PendingBefore(n) /\ Reported(n) = "delivered") =>
            /\ gets <= n
            /\ pc # "panicked"
            /\ (pc \in {"get", "decode"} => gets < n \/ (pc = "decode" /\ gets = n))
            /\ (pc = "returned" => gets = n /\ result = Ok("delivered"))

\* C1's case: queued, sent, delivered gave two GETs and Ok("delivered").
C1_Witness ==
    /\ pc = "returned"
    /\ Len(script) = 2
    /\ <<Reported(0), Reported(1), Reported(2)>> = <<"queued", "sent", "delivered">>
    /\ gets = 2
    /\ result = Ok("delivered")

\* C2: when the answers before the n-th are all queued or sent and the n-th
\* is a status x other than queued, sent and delivered, the call sends no
\* more than n GETs and, when it has returned, has sent exactly n and
\* returned Err(NotDelivered(x)), x being that last answer's status.
C2_NotDeliveredCarriesLastStatus ==
    \A n \in Answers :
        (PendingBefore(n)
            /\ Reported(n) \in Statuses \ (NonTerminal \cup {"delivered"})) =>
            /\ gets <= n
            /\ pc # "panicked"
            /\ (pc = "returned" =>
                    gets = n /\ result = Err(NotDelivered(Reported(n))))

\* C2's case: queued, then failed, gave one GET and NotDelivered("failed").
C2_Witness ==
    /\ pc = "returned"
    /\ Len(script) >= 1
    /\ <<Reported(0), Reported(1)>> = <<"queued", "failed">>
    /\ gets = 1
    /\ result = Err(NotDelivered("failed"))

\* C3: a GET is sent only when the answer before it reported queued or sent;
\* and when the initial response reports any other status no GET is ever
\* sent and the call returns that status's classification.
C3_GetOnlyWhileQueuedOrSent ==
    /\ (pc = "get" => Reported(gets) \in NonTerminal)
    /\ (gets >= 1 => Reported(gets - 1) \in NonTerminal)
    /\ (Reported(0) \in Statuses \ NonTerminal =>
            /\ gets = 0
            /\ pc \in {"start", "while", "match", "returned"}
            /\ (pc = "returned" =>
                    result = IF Reported(0) = "delivered" THEN Ok("delivered")
                             ELSE Err(NotDelivered(Reported(0)))))

\* C3's case: the initial response reported sending, the provider had an
\* answer ready, and the call returned without a GET.
C3_Witness ==
    /\ Reported(0) = "sending"
    /\ Len(script) >= 1
    /\ pc = "returned"
    /\ gets = 0
    /\ result = Err(NotDelivered("sending"))

\* C4 (as claimed): when the answer to the n-th GET cannot be decoded (no
\* JSON, or a required field missing), the call sends no further GET and
\* returns a decode failure as an error value; it does not panic.
C4_DecodeFailureIsReturned ==
    \A n \in 1..Len(script) :
        (PendingBefore(n)
            /\ script[n] \in {Reply(NonJsonBody), Reply(MissingFieldBody)}) =>
            /\ gets <= n
            /\ pc # "panicked"
            /\ (pc = "returned" => result = Err(URLDecodeFailure))

\* C5 (as claimed): when the n-th GET fails in transport, the call sends no
\* further GET and returns Err(HTTPRequestError); it does not panic.
C5_TransportFailureIsReturned ==
    \A n \in 1..Len(script) :
        (PendingBefore(n) /\ script[n] = TransportFailure) =>
            /\ gets <= n
            /\ pc # "panicked"
            /\ (pc = "returned" => result = Err(HTTPRequestError))

\* C9 (as claimed): once the provider has reported an in-progress status
\* other than queued and sent, the call never returns.
C9_NeverReturnsOnUnexpectedStatus ==
    \A n \in Answers :
        (PendingBefore(n) /\ Reported(n) \in UnexpectedInProgress) =>
            pc # "returned"

\* C9 (amended): when the provider reports an in-progress status x other
\* than queued and sent, the call sends no GET after that answer, and it
\* returns, with Err(NotDelivered(x)).
C9_ReturnsNotDeliveredOnUnexpectedStatus ==
    /\ [](\A n \in Answers :
            (PendingBefore(n) /\ Reported(n) \in UnexpectedInProgress) =>
                /\ gets <= n
                /\ pc # "panicked"
                /\ (pc = "returned" =>
                        result = Err(NotDelivered(Reported(n)))))
    /\ ((\E n \in Answers :
            PendingBefore(n) /\ Reported(n) \in UnexpectedInProgress)
        ~> (pc = "returned"))

\* C9's case: the initial response reported queued, the first GET's answer
\* accepted; the call returned NotDelivered("accepted") after that one GET
\* though the provider had another answer ready.
C9_Witness ==
    /\ Len(script) = 2
    /\ <<Reported(0), Reported(1)>> = <<"queued", "accepted">>
    /\ pc = "returned"
    /\ gets = 1
    /\ result = Err(NotDelivered("accepted"))

\* C10: the loop has no bound of its own.  The call has returned (or left
\* the loop) only when the last answer it got is the first one that reported
\* a status other than queued and sent; it sends a GET for every answer the
\* provider has ready as long as all answers so far reported queued or sent,
\* and none after; and if some answer reports another status, with all
\* before it decodable, the call returns.
C10_PollsUntilStatusLeavesQueuedSent ==
    /\ [](pc \in {"match", "returned"} =>
            /\ PendingBefore(gets)
            /\ Reported(gets) \in Statuses \ NonTerminal)
    /\ [](gets <= ExpectedGets)
    /\ <>(gets = ExpectedGets)
    /\ ((\E n \in Answers :
            PendingBefore(n) /\ Reported(n) \in Statuses \ NonTerminal)
        ~> (pc = "returned"))

\* C10's case: every answer reported queued or sent, the call has sent a GET
\* for each one the provider had ready and is about to send another.
C10_Witness ==
    /\ gets = MaxPolls
    /\ PendingBefore(MaxPolls + 1)
    /\ pc = "get"

(***************************************************************************)
(* What the decoder promises, read off the document (not off the parser).  *)
(***************************************************************************)

NullFields ==
    {"date_sent", "messaging_service_sid", "price", "error_code",
     "error_message"}

\* The entries of an object of string members, given as its tokens
\* { k : v , k : v ... }.
EntriesOf(obj) ==
    {<<obj[4 * e - 2].v, obj[4 * e].v>> : e \in 1..((Len(obj) - 1) \div 4)}

\* The value tests::test_decoding expects.
TestExpected ==
    [sid |-> "XXXX",
     date_created |-> "Wed, 22 Jan 2020 15:23:30 +0000",
     date_updated |-> "Wed, 22 Jan 2020 15:23:30 +0000",
     date_sent |-> None,
     account_sid |-> "ACXXXX",
     to |-> "+11234567890",
     from |-> "+10987654321",
     messaging_service_sid |-> None,
     body |-> "Sent from your Twilio trial account - Hiya",
     status |-> "queued",
     num_segments |-> "1",
     num_media |-> "0",
     direction |-> "outbound-api",
     api_version |-> "2010-04-01",
     price |-> None,
     price_unit |-> "USD",
     error_code |-> None,
     error_message |-> None,
     uri |-> "/2010-04-01/Accounts/ACXXXX/Messages/XXXX.json",
     subresource_uris |->
        {<<"media", "/2010-04-01/Accounts/ACXXXX/Messages/XXXX/Media.json">>}]

\* C7: decode_str on an object that has every field, the five optional ones
\* null, returns a TwilioReply whose five optional fields are None, whose
\* other fields are the document's strings and whose subresource_uris holds
\* exactly the document's entries; on the test's document it returns the
\* value the test expects.
C7_DecodeStrFidelity ==
    /\ \A ms \in NullOptionDocuments :
        (via = "decode_str" /\ body_in.text = Render(ms)) =>
            /\ decoded.tag = "returned"
            /\ decoded.value.ok
            /\ DOMAIN decoded.value.v = FieldNames
            /\ \A f \in NullFields : decoded.value.v[f] = None
            /\ \A f \in FieldNames \ (NullFields \cup {"subresource_uris"}) :
                   decoded.value.v[f] = Member(ms, f)[2][1].v
            /\ decoded.value.v["subresource_uris"]
                   = EntriesOf(Member(ms, "subresource_uris")[2])
    /\ (via = "decode_str" /\ body_in.text = Render(Members("queued")) =>
            decoded = Returned(Ok(TestExpected)))

\* C7's case: decode_str has decoded the test's document, with members the
\* struct does not know added to it, into the value the test expects.
C7_Witness ==
    /\ via = "decode_str"
    /\ body_in.text = Render(WithUnknown(Members("queued"), MaxUnknown))
    /\ decoded = Returned(Ok(TestExpected))

\* C8 (as claimed): decode, on a response whose body can be read, returns
\* either a TwilioReply with every field or Err(URLDecodeFailure), and the
\* error whenever the bytes are not valid UTF-8.
C8_DecodeReturnsReplyOrDecodeError ==
    (via = "decode" /\ body_in.io) =>
        /\ decoded.tag = "returned"
        /\ (decoded.value.ok => DOMAIN decoded.value.v = FieldNames)
        /\ (~decoded.value.ok => decoded.value.err = URLDecodeFailure)
        /\ (~body_in.utf8 => ~decoded.value.ok)

====
